---- MODULE Spec2Model ----
(***************************************************************************)
(* Conway's Game of Life on a toroidal grid, driven by the SDL3 main       *)
(* callbacks (SDL_AppInit, SDL_AppEvent, SDL_AppIterate, SDL_AppQuit) of   *)
(* src/src/main.cpp.                                                       *)
(*                                                                         *)
(* The callbacks run on one thread.  The loops of initGrid and updateGrid  *)
(* are modelled cell by cell (position pc, r, c), so that the states       *)
(* inside a reseed or a step exist in the model; the driver can deliver an *)
(* event or call SDL_AppIterate only between callbacks (pc = "loop").      *)
(***************************************************************************)
EXTENDS Integers, Sequences, FiniteSets

VARIABLES
    Rows, Columns,      \* grid dimensions (fixed after Init)
    Grid, NewGrid,      \* the two global cell buffers
    appstate,           \* "nullptr", "app" (allocated) or "deleted"
    status,             \* Application::status
    runSimulation,      \* Application::runSimulation
    pc,                 \* position of the single control thread
    caller,             \* the callback that called initGrid
    r, c,               \* loop indices of the running initGrid / updateGrid
    result,             \* SDL_AppResult returned by the last callback
    frame,              \* rectangles emitted by drawGrid in the current tick
    neighborCount,      \* local of updateGrid: count of the last cell handled
    draws,              \* history: std::rand() results of the running initGrid
    prevCell,           \* history: content of the cell initGrid wrote last, before the write
    gen0,               \* history: Grid at the start of the current tick
    stepped,            \* history: the current tick has called updateGrid
    base, baseNew,      \* history: Grid and NewGrid after the last event (or rebase)
    ticks,              \* history: ticks completed since base
    presented,          \* history: the frame SDL_RenderPresent showed in the current tick
    toggles, run0,      \* history: toggle-run events in a row, runSimulation before them
    ticksAfterQuit,     \* history: tick bodies begun after a quit event was handled
    srandCalled,        \* history: std::srand has been called
    pending             \* SDL's event queue: the events posted and not yet handed to SDL_AppEvent

vars == <<Rows, Columns, Grid, NewGrid, appstate, status, runSimulation, pc,
          caller, r, c, result, frame, neighborCount, draws, prevCell, gen0,
          stepped, base, baseNew, ticks, presented, toggles, run0,
          ticksAfterQuit,
          srandCalled, pending>>

----------------------------------------------------------------------------
(* Bounds of the model *)

\* the application specification uses every grid of at most MaxCells cells
MaxCells == 4
\* the step specification uses every grid of at most StepMaxRows rows,
\* StepMaxColumns columns and StepMaxCells cells
StepMaxRows == 3
StepMaxColumns == 3
StepMaxCells == 9
\* the pattern specification uses grids of 4 to PatternMaxRows rows and 4 to
\* PatternMaxColumns columns
PatternMaxRows == 5
PatternMaxColumns == 5
\* ticks counted against one base generation before the history is rebased
MaxTicks == 2
\* toggle-run events counted in a row before the history is rebased
MaxToggles == 2

(* Program constants *)

CellSize == 2

\* results of std::rand(): both sides of the 10% threshold, and one above 100
Draws == {9, 10, 105}

----------------------------------------------------------------------------
(* Integer widths *)

\* A Uint32 is kept as two 16-bit limbs <<high, low>>, value high * 65536 + low:
\* the model checker's integers stop short of 2^32.
Limb == 65536

\* conversion of an int to Uint32 (two's complement for a negative int)
U32(x) == <<(x \div Limb) % Limb, x % Limb>>

\* Uint32 + Uint32, the carry out of the high limb dropped (modulo 2^32)
AddU32(a, b) ==
    LET low == a[2] + b[2]
    IN  <<(a[1] + b[1] + (low \div Limb)) % Limb, low % Limb>>

\* Uint32 % m for a divisor 0 < m < 2^15, as an integer
ModU32(a, m) == ((a[1] % m) * (Limb % m) + (a[2] % m)) % m

Uint8(x) == x % 256

----------------------------------------------------------------------------
(* Grids *)

RowIdx == 0 .. (Rows - 1)

ColIdx == 0 .. (Columns - 1)

\* std::vector<std::vector<Uint8>>{rows, std::vector<Uint8>(columns, 0)}
ZeroGrid(rows, columns) == [i \in 0 .. (rows - 1) |-> [j \in 0 .. (columns - 1) |-> 0]]

\* the dimensions with at most maxCells cells
Dims(maxCells) == {d \in (1 .. maxCells) \X (1 .. maxCells) : d[1] * d[2] <= maxCells}

\* every content of a grid of the current dimensions
AllGrids == [RowIdx -> [ColIdx -> {0, 1}]]

----------------------------------------------------------------------------
(* The functions of main.cpp *)

\* the cell the row-major double loop visits after (row, column)
NextCell(row, column) ==
    IF column + 1 < Columns THEN <<row, column + 1>> ELSE <<row + 1, 0>>

\* initCell comparing the draw itself, not its remainder modulo 100
initCell_NoModulo(grid, row, column, draw) ==
    [grid EXCEPT ![row][column] = IF draw < 10 THEN 1 ELSE 0]

\* initGrid, loop body: grid[r][c] = ((std::rand() % 100) < 10) ? 1 : 0
initCell(grid, row, column, draw) ==
    [grid EXCEPT ![row][column] = IF (draw % 100) < 10 THEN 1 ELSE 0]

\* drawGrid: the SDL_RenderFillRect calls, in order, from cell (row, column) on
RECURSIVE drawGridFrom(_, _, _)
drawGridFrom(grid, row, column) ==
    IF row >= Rows
    THEN <<>>
    ELSE LET cell == [x |-> column * CellSize, y |-> row * CellSize,
                      w |-> CellSize, h |-> CellSize]
             next == NextCell(row, column)
         IN  (IF grid[row][column] # 0 THEN <<cell>> ELSE <<>>)
                 \o drawGridFrom(grid, next[1], next[2])

\* drawGrid with cell.x taken from the row and cell.y from the column
drawGrid_Transposed(grid) ==
    LET s == drawGridFrom(grid, 0, 0)
    IN  [k \in 1 .. Len(s) |-> [x |-> s[k].y, y |-> s[k].x, w |-> s[k].w, h |-> s[k].h]]

drawGrid(grid) == drawGridFrom(grid, 0, 0)

\* getNeighborCount: the offsets (r, c) in the order the double loop takes them
Offsets ==
    << <<-1, -1>>, <<-1, 0>>, <<-1, 1>>, <<0, -1>>,
       <<0, 1>>, <<1, -1>>, <<1, 0>>, <<1, 1>> >>

\* destRow without the "+ Rows" that keeps the sum from wrapping below zero
destRow_NoBias(row, dr) == ModU32(U32(row + dr), Rows)

\* int destRow = (row + r + Rows) % Rows: row + r is an int, Rows a Uint32, so
\* the sum and the remainder are taken in 32-bit unsigned arithmetic
destRow(row, dr) == ModU32(AddU32(U32(row + dr), U32(Rows)), Rows)

\* destColumn without the "+ Columns"
destColumn_NoBias(column, dc) == ModU32(U32(column + dc), Columns)

\* int destColumn = (column + c + Columns) % Columns
destColumn(column, dc) == ModU32(AddU32(U32(column + dc), U32(Columns)), Columns)

\* the index pairs getNeighborCount(grid, row, column) reads, in order
neighborReads(row, column) ==
    [i \in 1 .. 8 |-> <<destRow(row, Offsets[i][1]), destColumn(column, Offsets[i][2])>>]

RECURSIVE countFrom(_, _, _, _, _)
countFrom(grid, row, column, i, count) ==
    IF i > 8
    THEN count
    ELSE countFrom(grid, row, column, i + 1,
                   IF grid[destRow(row, Offsets[i][1])][destColumn(column, Offsets[i][2])] # 0
                   THEN Uint8(count + 1)
                   ELSE count)

\* getNeighborCount skipping every read that lands on the cell itself
getNeighborCount_SkipSelf(grid, row, column) ==
    Cardinality({i \in 1 .. 8 :
        LET p == neighborReads(row, column)[i]
        IN  p # <<row, column>> /\ grid[p[1]][p[2]] # 0})

getNeighborCount(grid, row, column) == countFrom(grid, row, column, 1, 0)

\* updateCell with overpopulation from 3 neighbours on (>= for >)
updateCell_Overpopulation3(grid, newGrid, row, column) ==
    LET n == getNeighborCount(grid, row, column)
        cell == IF grid[row][column] # 0
                THEN (IF n < 2 \/ n >= 3 THEN 0 ELSE 1)
                ELSE (IF n = 3 THEN 1 ELSE 0)
    IN  [grid |-> grid, newGrid |-> [newGrid EXCEPT ![row][column] = cell]]

\* updateCell writing the next state into grid itself as well
updateCell_InPlace(grid, newGrid, row, column) ==
    LET n == getNeighborCount(grid, row, column)
        cell == IF grid[row][column] # 0
                THEN (IF n < 2 \/ n > 3 THEN 0 ELSE 1)
                ELSE (IF n = 3 THEN 1 ELSE 0)
    IN  [grid |-> [grid EXCEPT ![row][column] = cell],
         newGrid |-> [newGrid EXCEPT ![row][column] = cell]]

\* updateCell writing newGrid only where the cell changes state
updateCell_WriteOnChange(grid, newGrid, row, column) ==
    LET n == getNeighborCount(grid, row, column)
        cell == IF grid[row][column] # 0
                THEN (IF n < 2 \/ n > 3 THEN 0 ELSE newGrid[row][column])
                ELSE (IF n = 3 THEN 1 ELSE newGrid[row][column])
    IN  [grid |-> grid, newGrid |-> [newGrid EXCEPT ![row][column] = cell]]

\* updateCell with reproduction at up to 3 neighbours (<= for ==)
updateCell_BirthUpTo3(grid, newGrid, row, column) ==
    LET n == getNeighborCount(grid, row, column)
        cell == IF grid[row][column] # 0
                THEN (IF n < 2 \/ n > 3 THEN 0 ELSE 1)
                ELSE (IF n <= 3 THEN 1 ELSE 0)
    IN  [grid |-> grid, newGrid |-> [newGrid EXCEPT ![row][column] = cell]]

\* updateCell storing the neighbour count of a surviving cell, not 1
updateCell_StoreCount(grid, newGrid, row, column) ==
    LET n == getNeighborCount(grid, row, column)
        cell == IF grid[row][column] # 0
                THEN (IF n < 2 \/ n > 3 THEN 0 ELSE n)
                ELSE (IF n = 3 THEN 1 ELSE 0)
    IN  [grid |-> grid, newGrid |-> [newGrid EXCEPT ![row][column] = cell]]

\* updateGrid, loop body for cell (row, column): both buffers afterwards
updateCell(grid, newGrid, row, column) ==
    LET n == getNeighborCount(grid, row, column)
        cell == IF grid[row][column] # 0
                THEN (IF n < 2 \/ n > 3 THEN 0 ELSE 1)
                ELSE (IF n = 3 THEN 1 ELSE 0)
    IN  [grid |-> grid, newGrid |-> [newGrid EXCEPT ![row][column] = cell]]

\* updateGrid from cell (row, column) on, then grid = newGrid
RECURSIVE updateGridFrom(_, _, _, _)
updateGridFrom(grid, newGrid, row, column) ==
    IF row >= Rows
    THEN [grid |-> newGrid, newGrid |-> newGrid]
    ELSE LET s == updateCell(grid, newGrid, row, column)
             next == NextCell(row, column)
         IN  updateGridFrom(s.grid, s.newGrid, next[1], next[2])

updateGrid(grid, newGrid) == updateGridFrom(grid, newGrid, 0, 0)

----------------------------------------------------------------------------
(* History bookkeeping *)

\* the history starts again from the buffers as the step leaves them
Rebase == base' = Grid' /\ baseNew' = NewGrid' /\ ticks' = 0

\* outside a tick the per-tick history holds these values
NoTick ==
    /\ gen0' = ZeroGrid(Rows, Columns)
    /\ stepped' = FALSE
    /\ frame' = <<>>
    /\ presented' = <<>>
    /\ neighborCount' = 0

----------------------------------------------------------------------------
(* Initial state: the globals as constructed, SDL_AppInit not yet called *)

InitWith(dims) ==
    /\ \E d \in dims : Rows = d[1] /\ Columns = d[2]
    /\ Grid = ZeroGrid(Rows, Columns)
    /\ NewGrid = ZeroGrid(Rows, Columns)
    /\ appstate = "nullptr"
    /\ status = "SDL_APP_CONTINUE"
    /\ runSimulation = TRUE
    /\ pc = "boot"
    /\ caller = "none"
    /\ r = 0
    /\ c = 0
    /\ result = "SDL_APP_CONTINUE"
    /\ frame = <<>>
    /\ presented = <<>>
    /\ neighborCount = 0
    /\ draws = <<>>
    /\ prevCell = 0
    /\ gen0 = ZeroGrid(Rows, Columns)
    /\ stepped = FALSE
    /\ base = Grid
    /\ baseNew = NewGrid
    /\ ticks = 0
    /\ toggles = 0
    /\ run0 = TRUE
    /\ ticksAfterQuit = 0
    /\ srandCalled = FALSE
    /\ pending = <<>>

Init == InitWith(Dims(MaxCells))

----------------------------------------------------------------------------
(* SDL_AppInit *)

\* SDL_Init or SDL_CreateWindowAndRenderer fails: return SDL_APP_FAILURE
SDL_AppInit_Fail ==
    /\ pc = "boot"
    /\ \E failing \in {"SDL_Init", "SDL_CreateWindowAndRenderer"} :
          /\ result' = "SDL_APP_FAILURE"
          /\ pc' = "quit"
    /\ UNCHANGED <<Rows, Columns, Grid, NewGrid, appstate, status, runSimulation,
                   caller, r, c, frame, neighborCount, draws, prevCell, gen0,
                   stepped, base, baseNew, ticks, presented, toggles, run0,
                   ticksAfterQuit,
                   srandCalled>>
    /\ UNCHANGED pending

\* both succeed: new Application{...}, std::srand, then initGrid(Grid) is entered
SDL_AppInit_Ok ==
    /\ pc = "boot"
    /\ appstate' = "app"
    /\ status' = "SDL_APP_CONTINUE"
    /\ runSimulation' = TRUE
    /\ caller' = "SDL_AppInit"
    /\ pc' = "initGrid"
    /\ r' = 0
    /\ c' = 0
    /\ UNCHANGED <<Rows, Columns, Grid, NewGrid, result, frame, neighborCount,
                   draws, prevCell, gen0, stepped, base, baseNew, ticks,
                   presented, toggles, run0, ticksAfterQuit>>
    /\ srandCalled' = TRUE
    /\ UNCHANGED pending

(* initGrid(Grid) *)

\* one pass of the inner loop: a draw, and the write of cell (r, c)
initGrid_Cell ==
    /\ pc = "initGrid"
    /\ r < Rows
    /\ \E draw \in Draws :
          /\ Grid' = initCell(Grid, r, c, draw)
          /\ draws' = Append(draws, draw)
    /\ prevCell' = Grid[r][c]
    /\ r' = NextCell(r, c)[1]
    /\ c' = NextCell(r, c)[2]
    /\ UNCHANGED <<Rows, Columns, NewGrid, appstate, status, runSimulation, pc,
                   caller, result, frame, neighborCount, gen0, stepped,
                   presented, toggles, run0, ticksAfterQuit,
                   srandCalled>>
    /\ Rebase
    /\ UNCHANGED pending

\* the loops are over; the calling callback returns SDL_APP_CONTINUE
initGrid_Return ==
    /\ pc = "initGrid"
    /\ r >= Rows
    /\ result' = "SDL_APP_CONTINUE"
    /\ pc' = "loop"
    /\ caller' = "none"
    /\ r' = 0
    /\ c' = 0
    /\ draws' = <<>>
    /\ prevCell' = 0
    /\ UNCHANGED <<Rows, Columns, Grid, NewGrid, appstate, status, runSimulation,
                   frame, neighborCount, gen0, stepped, presented, toggles, run0,
                   ticksAfterQuit,
                   srandCalled>>
    /\ Rebase
    /\ UNCHANGED pending

----------------------------------------------------------------------------
(* SDL_AppEvent *)

\* SDL calls SDL_AppEvent with the event at the head of its queue, which it
\* removes, or, the queue being empty, with an event that arrives just now
Dispatched(kind) ==
    /\ pending # <<>> => Head(pending) = kind
    /\ pending' = IF pending = <<>> THEN pending ELSE Tail(pending)

\* event->type == SDL_EVENT_QUIT
SDL_AppEvent_Quit ==
    /\ pc = "loop"
    /\ status' = "SDL_APP_SUCCESS"
    /\ result' = "SDL_APP_CONTINUE"
    /\ toggles' = 0
    /\ run0' = runSimulation
    /\ UNCHANGED <<Rows, Columns, Grid, NewGrid, appstate, runSimulation, pc,
                   caller, r, c, frame, neighborCount, draws, prevCell, gen0,
                   stepped, presented, ticksAfterQuit,
                   srandCalled>>
    /\ Rebase
    /\ Dispatched("SDL_EVENT_QUIT")

\* the SPACE branch pausing only: runSimulation = false
SDL_AppEvent_Space_PauseOnly ==
    /\ pc = "loop"
    /\ runSimulation' = FALSE
    /\ result' = "SDL_APP_CONTINUE"
    /\ IF toggles < MaxToggles
       THEN toggles' = toggles + 1 /\ run0' = run0
       ELSE toggles' = 1 /\ run0' = runSimulation
    /\ UNCHANGED <<Rows, Columns, Grid, NewGrid, appstate, status, pc, caller,
                   r, c, frame, neighborCount, draws, prevCell, gen0, stepped,
                   presented, ticksAfterQuit,
                   srandCalled>>
    /\ Rebase
    /\ Dispatched("SDLK_SPACE")

\* SDL_EVENT_KEY_DOWN, SDLK_SPACE
SDL_AppEvent_Space ==
    /\ pc = "loop"
    /\ runSimulation' = ~runSimulation
    /\ result' = "SDL_APP_CONTINUE"
    /\ IF toggles < MaxToggles
       THEN toggles' = toggles + 1 /\ run0' = run0
       ELSE toggles' = 1 /\ run0' = runSimulation
    /\ UNCHANGED <<Rows, Columns, Grid, NewGrid, appstate, status, pc, caller,
                   r, c, frame, neighborCount, draws, prevCell, gen0, stepped,
                   presented, ticksAfterQuit,
                   srandCalled>>
    /\ Rebase
    /\ Dispatched("SDLK_SPACE")

\* the R branch taken only while the simulation runs
SDL_AppEvent_R_WhenRunning ==
    /\ pc = "loop"
    /\ runSimulation
    /\ caller' = "SDL_AppEvent"
    /\ pc' = "initGrid"
    /\ r' = 0
    /\ c' = 0
    /\ toggles' = 0
    /\ run0' = runSimulation
    /\ UNCHANGED <<Rows, Columns, Grid, NewGrid, appstate, status, runSimulation,
                   result, frame, neighborCount, draws, prevCell, gen0, stepped,
                   presented, ticksAfterQuit,
                   srandCalled>>
    /\ Rebase
    /\ Dispatched("SDLK_R")

\* SDL_EVENT_KEY_DOWN, SDLK_R: initGrid(Grid) is entered
SDL_AppEvent_R ==
    /\ pc = "loop"
    /\ caller' = "SDL_AppEvent"
    /\ pc' = "initGrid"
    /\ r' = 0
    /\ c' = 0
    /\ toggles' = 0
    /\ run0' = runSimulation
    /\ UNCHANGED <<Rows, Columns, Grid, NewGrid, appstate, status, runSimulation,
                   result, frame, neighborCount, draws, prevCell, gen0, stepped,
                   presented, ticksAfterQuit,
                   srandCalled>>
    /\ Rebase
    /\ Dispatched("SDLK_R")

\* an event other than quit putting the status back to SDL_APP_CONTINUE
SDL_AppEvent_Other_ResetStatus ==
    /\ pc = "loop"
    /\ \E event \in {"SDL_EVENT_KEY_DOWN other key", "other type"} :
          result' = "SDL_APP_CONTINUE"
    /\ status' = "SDL_APP_CONTINUE"
    /\ toggles' = 0
    /\ run0' = runSimulation
    /\ UNCHANGED <<Rows, Columns, Grid, NewGrid, appstate, runSimulation,
                   pc, caller, r, c, frame, neighborCount, draws, prevCell, gen0,
                   stepped, presented, ticksAfterQuit, srandCalled>>
    /\ Rebase
    /\ Dispatched("other")

\* any other key, or any other event type
SDL_AppEvent_Other ==
    /\ pc = "loop"
    /\ \E event \in {"SDL_EVENT_KEY_DOWN other key", "other type"} :
          result' = "SDL_APP_CONTINUE"
    /\ toggles' = 0
    /\ run0' = runSimulation
    /\ UNCHANGED <<Rows, Columns, Grid, NewGrid, appstate, status, runSimulation,
                   pc, caller, r, c, frame, neighborCount, draws, prevCell, gen0,
                   stepped, presented, ticksAfterQuit,
                   srandCalled>>
    /\ Rebase
    /\ Dispatched("other")

----------------------------------------------------------------------------
(* SDL_AppIterate *)

\* SDL_AppIterate calling updateGrid whatever app->runSimulation is
SDL_AppIterate_Begin_AlwaysStep ==
    /\ pc = "loop"
    /\ frame' = drawGrid(Grid)
    /\ gen0' = Grid
    /\ ticksAfterQuit' =
          IF status = "SDL_APP_SUCCESS" THEN ticksAfterQuit + 1 ELSE ticksAfterQuit
    /\ UNCHANGED srandCalled
    /\ toggles' = 0
    /\ run0' = runSimulation
    /\ pc' = "updateGrid"
    /\ r' = 0
    /\ c' = 0
    /\ UNCHANGED <<Rows, Columns, Grid, NewGrid, appstate, status, runSimulation,
                   caller, result, neighborCount, draws, prevCell, stepped, base,
                   baseNew, ticks, presented>>
    /\ UNCHANGED pending

\* SDL_AppIterate polling the event queue itself after drawGrid, as a classic
\* SDL loop does, and toggling runSimulation on a SPACE it finds there
SDL_AppIterate_Begin_Polls ==
    /\ pc = "loop"
    /\ frame' = drawGrid(Grid)
    /\ gen0' = Grid
    /\ ticksAfterQuit' =
          IF status = "SDL_APP_SUCCESS" THEN ticksAfterQuit + 1 ELSE ticksAfterQuit
    /\ toggles' = 0
    /\ run0' = runSimulation
    /\ LET polled == pending # <<>> /\ Head(pending) = "SDLK_SPACE"
           run == IF polled THEN ~runSimulation ELSE runSimulation
       IN  /\ runSimulation' = run
           /\ pending' = IF polled THEN Tail(pending) ELSE pending
           /\ pc' = IF run THEN "updateGrid" ELSE "present"
    /\ r' = 0
    /\ c' = 0
    /\ UNCHANGED <<Rows, Columns, Grid, NewGrid, appstate, status, caller, result,
                   neighborCount, draws, prevCell, stepped, base, baseNew, ticks,
                   presented, srandCalled>>

\* SDL_RenderClear, drawGrid(app->renderer, Grid), if (app->runSimulation)
SDL_AppIterate_Begin ==
    /\ pc = "loop"
    /\ frame' = drawGrid(Grid)
    /\ gen0' = Grid
    /\ ticksAfterQuit' =
          IF status = "SDL_APP_SUCCESS" THEN ticksAfterQuit + 1 ELSE ticksAfterQuit
    /\ UNCHANGED srandCalled
    /\ toggles' = 0
    /\ run0' = runSimulation
    /\ IF runSimulation
       THEN pc' = "updateGrid"
       ELSE pc' = "present"
    /\ r' = 0
    /\ c' = 0
    /\ UNCHANGED <<Rows, Columns, Grid, NewGrid, appstate, status, runSimulation,
                   caller, result, neighborCount, draws, prevCell, stepped, base,
                   baseNew, ticks, presented>>
    /\ UNCHANGED pending

\* updateGrid(Grid, NewGrid): one pass of the inner loop, for cell (r, c)
updateGrid_Cell ==
    /\ pc = "updateGrid"
    /\ r < Rows
    /\ neighborCount' = getNeighborCount(Grid, r, c)
    /\ LET s == updateCell(Grid, NewGrid, r, c)
       IN  Grid' = s.grid /\ NewGrid' = s.newGrid
    /\ r' = NextCell(r, c)[1]
    /\ c' = NextCell(r, c)[2]
    /\ UNCHANGED <<Rows, Columns, appstate, status, runSimulation, pc, caller,
                   result, frame, draws, prevCell, gen0, stepped, base, baseNew,
                   ticks, presented, toggles, run0, ticksAfterQuit,
                   srandCalled>>
    /\ UNCHANGED pending

\* the commit with the assignment reversed: newGrid = grid
updateGrid_Commit_Reversed ==
    /\ pc = "updateGrid"
    /\ r >= Rows
    /\ NewGrid' = Grid
    /\ stepped' = TRUE
    /\ pc' = "present"
    /\ r' = 0
    /\ c' = 0
    /\ UNCHANGED <<Rows, Columns, Grid, appstate, status, runSimulation,
                   caller, result, frame, neighborCount, draws, prevCell, gen0,
                   base, baseNew, ticks, presented, toggles, run0,
                   ticksAfterQuit,
                   srandCalled>>
    /\ UNCHANGED pending

\* updateGrid(Grid, NewGrid): the loops are over, grid = newGrid
updateGrid_Commit ==
    /\ pc = "updateGrid"
    /\ r >= Rows
    /\ Grid' = NewGrid
    /\ stepped' = TRUE
    /\ pc' = "present"
    /\ r' = 0
    /\ c' = 0
    /\ UNCHANGED <<Rows, Columns, NewGrid, appstate, status, runSimulation,
                   caller, result, frame, neighborCount, draws, prevCell, gen0,
                   base, baseNew, ticks, presented, toggles, run0,
                   ticksAfterQuit,
                   srandCalled>>
    /\ UNCHANGED pending

\* drawGrid called after updateGrid, just before SDL_RenderPresent
SDL_AppIterate_Present_DrawLate ==
    /\ pc = "present"
    /\ presented' = drawGrid(Grid)
    /\ pc' = "return"
    /\ UNCHANGED <<Rows, Columns, Grid, NewGrid, appstate, status, runSimulation,
                   caller, r, c, result, frame, neighborCount, draws, prevCell,
                   gen0, stepped, base, baseNew, ticks, toggles, run0,
                   ticksAfterQuit, srandCalled>>
    /\ UNCHANGED pending

\* SDL_RenderPresent, then the frame-rate delay
SDL_AppIterate_Present ==
    /\ pc = "present"
    /\ presented' = frame
    /\ pc' = "return"
    /\ UNCHANGED <<Rows, Columns, Grid, NewGrid, appstate, status, runSimulation,
                   caller, r, c, result, frame, neighborCount, draws, prevCell,
                   gen0, stepped, base, baseNew, ticks, toggles, run0,
                   ticksAfterQuit,
                   srandCalled>>
    /\ UNCHANGED pending

\* SDL_AppIterate returning SDL_APP_CONTINUE whatever app->status is
SDL_AppIterate_Return_Continue ==
    /\ pc = "return"
    /\ result' = "SDL_APP_CONTINUE"
    /\ pc' = "loop"
    /\ NoTick
    /\ UNCHANGED <<Rows, Columns, Grid, NewGrid, appstate, status, runSimulation,
                   caller, r, c, draws, prevCell, toggles, run0, ticksAfterQuit,
                   srandCalled>>
    /\ IF ticks < MaxTicks
       THEN ticks' = ticks + 1 /\ UNCHANGED <<base, baseNew>>
       ELSE Rebase
    /\ UNCHANGED pending

\* return app->status: the driver goes on only with SDL_APP_CONTINUE
SDL_AppIterate_Return ==
    /\ pc = "return"
    /\ result' = status
    /\ pc' = IF status = "SDL_APP_CONTINUE" THEN "loop" ELSE "quit"
    /\ NoTick
    /\ UNCHANGED <<Rows, Columns, Grid, NewGrid, appstate, status, runSimulation,
                   caller, r, c, draws, prevCell, toggles, run0, ticksAfterQuit,
                   srandCalled>>
    /\ IF ticks < MaxTicks
       THEN ticks' = ticks + 1 /\ UNCHANGED <<base, baseNew>>
       ELSE Rebase
    /\ UNCHANGED pending

----------------------------------------------------------------------------
(* SDL_AppQuit *)

\* SDL_AppQuit destroying and deleting the Application without the "if (app)"
SDL_AppQuit_NoCheck ==
    /\ pc = "quit"
    /\ appstate' = IF appstate = "nullptr" THEN "null dereferenced" ELSE "deleted"
    /\ pc' = "done"
    /\ UNCHANGED <<Rows, Columns, Grid, NewGrid, status, runSimulation, caller,
                   r, c, result, frame, neighborCount, draws, prevCell, gen0,
                   stepped, base, baseNew, ticks, presented, toggles, run0,
                   ticksAfterQuit, srandCalled>>
    /\ UNCHANGED pending

\* if (app) { destroy renderer and window; delete app; }  SDL_Quit()
SDL_AppQuit ==
    /\ pc = "quit"
    /\ appstate' = IF appstate = "app" THEN "deleted" ELSE appstate
    /\ pc' = "done"
    /\ UNCHANGED <<Rows, Columns, Grid, NewGrid, status, runSimulation, caller,
                   r, c, result, frame, neighborCount, draws, prevCell, gen0,
                   stepped, base, baseNew, ticks, presented, toggles, run0,
                   ticksAfterQuit,
                   srandCalled>>
    /\ UNCHANGED pending

----------------------------------------------------------------------------
(* The application: start-up, then events and ticks until a callback ends it *)

Next ==
    \/ SDL_AppInit_Fail
    \/ SDL_AppInit_Ok
    \/ initGrid_Cell
    \/ initGrid_Return
    \/ SDL_AppEvent_Quit
    \/ SDL_AppEvent_Space
    \/ SDL_AppEvent_R
    \/ SDL_AppEvent_Other
    \/ SDL_AppIterate_Begin
    \/ updateGrid_Cell
    \/ updateGrid_Commit
    \/ SDL_AppIterate_Present
    \/ SDL_AppIterate_Return
    \/ SDL_AppQuit

Spec == Init /\ [][Next]_vars

----------------------------------------------------------------------------
(* The step on its own: every grid of at most StepMaxCells cells as the      *)
(* freshly seeded Grid, SDL_AppInit just returned, and only ticks from there *)

InitStep ==
    /\ \E d \in Dims(StepMaxCells) :
          /\ d[1] <= StepMaxRows
          /\ d[2] <= StepMaxColumns
          /\ Rows = d[1]
          /\ Columns = d[2]
    /\ Grid \in AllGrids
    /\ NewGrid = ZeroGrid(Rows, Columns)
    /\ appstate = "app"
    /\ status = "SDL_APP_CONTINUE"
    /\ runSimulation = TRUE
    /\ pc = "loop"
    /\ caller = "none"
    /\ r = 0
    /\ c = 0
    /\ result = "SDL_APP_CONTINUE"
    /\ frame = <<>>
    /\ presented = <<>>
    /\ neighborCount = 0
    /\ draws = <<>>
    /\ prevCell = 0
    /\ gen0 = ZeroGrid(Rows, Columns)
    /\ stepped = FALSE
    /\ base = Grid
    /\ baseNew = NewGrid
    /\ ticks = 0
    /\ toggles = 0
    /\ run0 = TRUE
    /\ ticksAfterQuit = 0
    /\ srandCalled = TRUE
    /\ pending = <<>>

NextStep ==
    \/ SDL_AppIterate_Begin
    \/ updateGrid_Cell
    \/ updateGrid_Commit
    \/ SDL_AppIterate_Present
    \/ SDL_AppIterate_Return

SpecStep == InitStep /\ [][NextStep]_vars

----------------------------------------------------------------------------
(* The rule of the game, stated independently of the code *)

\* the 8 offsets {-1,0,1} x {-1,0,1} other than (0,0)
OffsetSet == ({-1, 0, 1} \X {-1, 0, 1}) \ {<<0, 0>>}

\* the cell offset o away from (row, column) on the torus
Wrapped(row, column, o) == <<(row + o[1]) % Rows, (column + o[2]) % Columns>>

\* the number of offsets whose wrapped cell is ALIVE in g
LiveNeighbours(g, row, column) ==
    Cardinality({o \in OffsetSet :
        g[Wrapped(row, column, o)[1]][Wrapped(row, column, o)[2]] = 1})

\* the state of cell (row, column) in the generation after g
NextCellState(g, row, column) ==
    IF \/ g[row][column] = 1 /\ LiveNeighbours(g, row, column) \in {2, 3}
       \/ g[row][column] = 0 /\ LiveNeighbours(g, row, column) = 3
    THEN 1
    ELSE 0

NextGen(g) == [i \in RowIdx |-> [j \in ColIdx |-> NextCellState(g, i, j)]]

RECURSIVE NextGenN(_, _)
NextGenN(g, n) == IF n = 0 THEN g ELSE NextGenN(NextGen(g), n - 1)

\* updateGrid has just returned in the current tick
AfterUpdate == stepped /\ pc = "present"

\* g with every cell negated
Flip(g) == [i \in RowIdx |-> [j \in ColIdx |-> 1 - g[i][j]]]

\* the cell the running loop handled last, when it has handled one
LastCell == IF c > 0 THEN <<r, c - 1>> ELSE <<r - 1, Columns - 1>>

----------------------------------------------------------------------------
(* C1: after one updateGrid a cell is ALIVE exactly when it was ALIVE with  *)
(* 2 or 3 live neighbours, or DEAD with exactly 3, in the generation as it  *)
(* was before the call; in every other case it is DEAD.                     *)
C1_StepRule ==
    AfterUpdate =>
        \A i \in RowIdx, j \in ColIdx :
            /\ Grid[i][j] \in {0, 1}
            /\ Grid[i][j] = 1 <=>
                  \/ gen0[i][j] = 1 /\ LiveNeighbours(gen0, i, j) \in {2, 3}
                  \/ gen0[i][j] = 0 /\ LiveNeighbours(gen0, i, j) = 3

\* a step on a 3x3 grid in which a DEAD cell with 3 live neighbours was born
\* and an ALIVE cell with 2 survived
C1_Witness ==
    /\ AfterUpdate
    /\ Rows = 3
    /\ Columns = 3
    /\ \E i \in RowIdx, j \in ColIdx :
          gen0[i][j] = 0 /\ LiveNeighbours(gen0, i, j) = 3 /\ Grid[i][j] = 1
    /\ \E i \in RowIdx, j \in ColIdx :
          gen0[i][j] = 1 /\ LiveNeighbours(gen0, i, j) = 2 /\ Grid[i][j] = 1

----------------------------------------------------------------------------
(* C2: for the cell updateGrid handled last (every cell of every grid in   *)
(* turn), getNeighborCount read only indices inside the grid, the index     *)
(* read for offset (dr,dc) is ((row+dr) mod Rows, (column+dc) mod Columns), *)
(* and the count it returned is the number of the 8 offsets whose wrapped   *)
(* cell is ALIVE, a value in 0..8.                                          *)
C2_NeighborCount ==
    (pc = "updateGrid" /\ <<r, c>> # <<0, 0>>) =>
        LET row == LastCell[1]
            column == LastCell[2]
            reads == neighborReads(row, column)
        IN  /\ \A i \in 1 .. 8 : reads[i][1] \in RowIdx /\ reads[i][2] \in ColIdx
            /\ \A o \in OffsetSet :
                  Cardinality({i \in 1 .. 8 :
                      Offsets[i] = o /\ reads[i] = Wrapped(row, column, o)}) = 1
            /\ neighborCount = getNeighborCount(Grid, row, column)
            /\ neighborCount = LiveNeighbours(Grid, row, column)
            /\ neighborCount \in 0 .. 8

\* the corner cell (Rows-1, Columns-1) of a full 3x3 grid has been counted:
\* every offset wraps or not, all 8 neighbours are distinct cells
C2_Witness ==
    /\ pc = "updateGrid"
    /\ Rows = 3
    /\ Columns = 3
    /\ r = Rows
    /\ neighborCount = 8
    /\ \A i \in RowIdx, j \in ColIdx : Grid[i][j] = 1

----------------------------------------------------------------------------
\* cell (i, j) comes before the position (r, c) of the running loop
Handled(i, j) == i < r \/ (i = r /\ j < c)

\* the draw initGrid took for cell (i, j): the loops run row by row
DrawOf(i, j) == draws[i * Columns + j + 1]

\* what a draw makes of a cell: ALIVE when (draw % 100) < 10
Seeded(draw) == IF (draw % 100) < 10 THEN 1 ELSE 0

\* a tick is between its first and its last statement
InTick == pc \in {"updateGrid", "present", "return"}

----------------------------------------------------------------------------
(* C3: while updateGrid computes cells, Grid stays the generation it held   *)
(* when the step began, every cell already computed holds its next state in *)
(* that generation, and the next pass writes the same value, and leaves     *)
(* Grid alone, also when NewGrid is empty or holds the opposite of what it  *)
(* holds in every cell.                                                     *)
C3_StepReadsCurrentOnly ==
    pc = "updateGrid" =>
        /\ Grid = gen0
        /\ \A i \in RowIdx, j \in ColIdx :
              Handled(i, j) => NewGrid[i][j] = NextCellState(gen0, i, j)
        /\ r < Rows =>
              LET here == updateCell(Grid, NewGrid, r, c)
              IN  /\ here.grid = gen0
                  /\ \A ng \in {ZeroGrid(Rows, Columns), Flip(NewGrid)} :
                        LET other == updateCell(Grid, ng, r, c)
                        IN  /\ other.grid = gen0
                            /\ other.newGrid[r][c] = here.newGrid[r][c]

\* all four cells computed, not yet committed, and the next generation differs
\* from the current one and from what NewGrid held
C3_Witness ==
    /\ pc = "updateGrid"
    /\ r >= Rows
    /\ Rows * Columns = 4
    /\ ticks = 0
    /\ NewGrid # Grid
    /\ NewGrid # baseNew

----------------------------------------------------------------------------
(* C4: right after updateGrid returns, Grid equals NewGrid cell for cell,   *)
(* and both hold the next generation of the Grid the step began with:       *)
(* nothing of what NewGrid or Grid held before is left.                     *)
C4_StepCommits ==
    AfterUpdate =>
        /\ Grid = NewGrid
        /\ \A i \in RowIdx, j \in ColIdx :
              NewGrid[i][j] = NextCellState(gen0, i, j)

\* NewGrid held an ALIVE cell that is DEAD now and a DEAD one that is ALIVE
\* now, and Grid has changed
C4_Witness ==
    /\ AfterUpdate
    /\ ticks = 0
    /\ Grid # gen0
    /\ \E i \in RowIdx, j \in ColIdx : baseNew[i][j] = 1 /\ NewGrid[i][j] = 0
    /\ \E i \in RowIdx, j \in ColIdx : baseNew[i][j] = 0 /\ NewGrid[i][j] = 1

----------------------------------------------------------------------------
(* C5 as stated: once a quit event has been handled, no tick body runs.     *)
C5_NoTickAfterQuit == ~(status = "SDL_APP_SUCCESS" /\ InTick)

(* C5, amended: after a quit event has been handled, exactly the next       *)
(* SDL_AppIterate call still runs its body; it returns SDL_APP_SUCCESS, the *)
(* loop ends, and no tick begins after it.                                  *)
C5_OneTickAfterQuit ==
    /\ ticksAfterQuit <= 1
    /\ ticksAfterQuit = 1 => (InTick \/ pc \in {"quit", "done"})
    /\ (status = "SDL_APP_SUCCESS" /\ pc \in {"quit", "done"}) =>
          (ticksAfterQuit = 1 /\ result = "SDL_APP_SUCCESS")
    /\ (status = "SDL_APP_SUCCESS" /\ pc = "loop") => ticksAfterQuit = 0

\* the tick after the quit event has run a step and the application is over
C5_Witness ==
    /\ pc = "done"
    /\ status = "SDL_APP_SUCCESS"
    /\ ticksAfterQuit = 1
    /\ runSimulation
    /\ Grid # base

----------------------------------------------------------------------------
(* C6: a toggle-run event negates runSimulation and leaves Grid, NewGrid    *)
(* and the status unchanged; after an even number of toggle-run events in a *)
(* row runSimulation is what it was before them, after an odd number the    *)
(* opposite.                                                                *)
C6_ToggleRun ==
    /\ [][SDL_AppEvent_Space =>
            /\ runSimulation' = ~runSimulation
            /\ UNCHANGED <<Grid, NewGrid, status, appstate, pc>>]_vars
    /\ [](toggles > 0 => (runSimulation = run0 <=> toggles % 2 = 0))

\* two toggle-run events in a row on a seeded grid
C6_Witness ==
    /\ toggles = 2
    /\ runSimulation = run0
    /\ pc = "loop"
    /\ Grid # ZeroGrid(Rows, Columns)

----------------------------------------------------------------------------
(* C7: a reseed event can be handled whether the simulation runs or not; it *)
(* enters initGrid(Grid) in the handler, every step of the handler leaves   *)
(* runSimulation, the status and NewGrid unchanged, and the handler returns *)
(* to the loop only with every cell of Grid written from its draw.          *)
C7_Reseed ==
    /\ [](pc = "loop" => ENABLED SDL_AppEvent_R)
    /\ [][SDL_AppEvent_R =>
            /\ pc' = "initGrid" /\ caller' = "SDL_AppEvent" /\ r' = 0 /\ c' = 0
            /\ UNCHANGED <<Grid, NewGrid, runSimulation, status, appstate>>]_vars
    /\ [][(pc = "initGrid" /\ caller = "SDL_AppEvent") =>
            /\ UNCHANGED <<NewGrid, runSimulation, status, appstate>>
            /\ pc' \in {"initGrid", "loop"}
            /\ pc' = "loop" =>
                  /\ r >= Rows
                  /\ \A i \in RowIdx, j \in ColIdx : Grid'[i][j] = Seeded(DrawOf(i, j))]_vars

\* a reseed while paused has written all four cells and changed Grid
C7_Witness ==
    /\ pc = "initGrid"
    /\ caller = "SDL_AppEvent"
    /\ r >= Rows
    /\ Rows * Columns = 4
    /\ ~runSimulation
    /\ NewGrid # ZeroGrid(Rows, Columns)
    /\ Grid # NewGrid
    /\ \E i \in RowIdx, j \in ColIdx : Grid[i][j] = 1

----------------------------------------------------------------------------
(* C8: a tick calls updateGrid exactly when runSimulation is true; paused   *)
(* ticks leave Grid and NewGrid as they were, and n ticks in a row while    *)
(* running leave Grid n generations after the Grid they began with.         *)
C8_TickSteps ==
    /\ pc = "return" => (stepped <=> runSimulation)
    /\ (pc = "return" /\ ~runSimulation) => (Grid = gen0 /\ NewGrid = baseNew)
    /\ pc = "loop" =>
          IF runSimulation
          THEN Grid = NextGenN(base, ticks)
          ELSE Grid = base /\ NewGrid = baseNew

\* two ticks in a row while running, through three different generations
C8_Witness ==
    /\ pc = "loop"
    /\ runSimulation
    /\ ticks = 2
    /\ Grid # base
    /\ NextGen(base) # base
    /\ NextGen(base) # Grid

----------------------------------------------------------------------------
(* C9: the Grid a step leaves is the Grid updateGrid computes from the     *)
(* generation the step began with and an empty NewGrid: whatever NewGrid    *)
(* held, whether the run was paused before, and whatever was drawn, two     *)
(* steps from the same Grid leave the same Grid.                            *)
C9_StepDeterministic ==
    AfterUpdate =>
        LET alone == updateGrid(gen0, ZeroGrid(Rows, Columns))
        IN  /\ alone.grid = Grid
            /\ alone.newGrid = NewGrid

\* a step taken while paused-and-resumed, from a NewGrid that held neither
\* zeros nor the current generation nor the next one
C9_Witness ==
    /\ AfterUpdate
    /\ ticks = 0
    /\ baseNew # ZeroGrid(Rows, Columns)
    /\ baseNew # gen0
    /\ baseNew # Grid
    /\ Grid # gen0

----------------------------------------------------------------------------
(* C10: while initGrid runs, every cell it has passed, row by row, holds    *)
(* ALIVE when that cell's own draw satisfies (draw % 100) < 10 and DEAD     *)
(* otherwise, whatever the cell held before; when the loops end that is so  *)
(* for every cell of the grid.                                              *)
C10_Seed ==
    pc = "initGrid" =>
        /\ Len(draws) = r * Columns + c
        /\ \A i \in RowIdx, j \in ColIdx :
              Handled(i, j) => Grid[i][j] = Seeded(DrawOf(i, j))
        /\ r >= Rows => \A i \in RowIdx, j \in ColIdx : Handled(i, j)

\* a reseed has written all four cells; the last one was ALIVE and its draw
\* made it DEAD; draws 9 and 105 made cells ALIVE
C10_Witness ==
    /\ pc = "initGrid"
    /\ caller = "SDL_AppEvent"
    /\ r >= Rows
    /\ Rows * Columns = 4
    /\ prevCell = 1
    /\ Grid[Rows - 1][Columns - 1] = 0
    /\ \E k \in 1 .. Len(draws) : draws[k] = 9
    /\ \E k \in 1 .. Len(draws) : draws[k] = 105

----------------------------------------------------------------------------
(* C11: a step from an all-DEAD Grid leaves an all-DEAD Grid, and once Grid *)
(* is all-DEAD no step outside initGrid (no tick, toggle-run, quit or other *)
(* event) makes a cell ALIVE.                                               *)
C11_EmptyStable ==
    /\ []((AfterUpdate /\ gen0 = ZeroGrid(Rows, Columns)) =>
             (Grid = ZeroGrid(Rows, Columns) /\ NewGrid = ZeroGrid(Rows, Columns)))
    /\ [][(Grid = ZeroGrid(Rows, Columns) /\ pc # "initGrid") =>
             Grid' = ZeroGrid(Rows, Columns)]_vars

\* the second step in a row from a seeded, all-DEAD grid of four cells whose
\* NewGrid held ALIVE cells before the first
C11_Witness ==
    /\ AfterUpdate
    /\ Rows * Columns = 4
    /\ ticks = 1
    /\ gen0 = ZeroGrid(Rows, Columns)
    /\ base = ZeroGrid(Rows, Columns)
    /\ baseNew # ZeroGrid(Rows, Columns)
    /\ Grid = ZeroGrid(Rows, Columns)

----------------------------------------------------------------------------
(* The step on the two classic patterns: SDL_AppInit has just returned with *)
(* a seeded Grid that holds one blinker or one block, at any position of a  *)
(* grid of at least 4x4 cells, and only ticks follow.                       *)

\* the horizontal line {(row, col-1), (row, col), (row, col+1)}, wrapped
Blinker(row, col) ==
    [i \in RowIdx |-> [j \in ColIdx |->
        IF i = row /\ j \in {(col - 1) % Columns, col, (col + 1) % Columns}
        THEN 1 ELSE 0]]

\* the vertical line {(row-1, col), (row, col), (row+1, col)}, wrapped
VBlinker(row, col) ==
    [i \in RowIdx |-> [j \in ColIdx |->
        IF j = col /\ i \in {(row - 1) % Rows, row, (row + 1) % Rows}
        THEN 1 ELSE 0]]

\* the cells of the 2x2 square with upper left corner (row, col), wrapped
BlockCells(row, col) ==
    {row, (row + 1) % Rows} \X {col, (col + 1) % Columns}

Block(row, col) ==
    [i \in RowIdx |-> [j \in ColIdx |->
        IF <<i, j>> \in BlockCells(row, col) THEN 1 ELSE 0]]

\* the grids the pattern specification starts from
PatternGrids ==
    {Block(row, col) : row \in RowIdx, col \in ColIdx}
        \cup (IF Rows >= 5 /\ Columns >= 5
              THEN {Blinker(row, col) : row \in RowIdx, col \in ColIdx}
              ELSE {})

InitPattern ==
    /\ Rows \in 4 .. PatternMaxRows
    /\ Columns \in 4 .. PatternMaxColumns
    /\ Grid \in PatternGrids
    /\ NewGrid = ZeroGrid(Rows, Columns)
    /\ appstate = "app"
    /\ status = "SDL_APP_CONTINUE"
    /\ runSimulation = TRUE
    /\ pc = "loop"
    /\ caller = "none"
    /\ r = 0
    /\ c = 0
    /\ result = "SDL_APP_CONTINUE"
    /\ frame = <<>>
    /\ presented = <<>>
    /\ neighborCount = 0
    /\ draws = <<>>
    /\ prevCell = 0
    /\ gen0 = ZeroGrid(Rows, Columns)
    /\ stepped = FALSE
    /\ base = Grid
    /\ baseNew = NewGrid
    /\ ticks = 0
    /\ toggles = 0
    /\ run0 = TRUE
    /\ ticksAfterQuit = 0
    /\ srandCalled = TRUE
    /\ pending = <<>>

SpecPattern == InitPattern /\ [][NextStep]_vars

----------------------------------------------------------------------------
(* C12: on a grid of at least 5x5 cells whose only ALIVE cells are the      *)
(* horizontal line around (row, col), at any position, wrapped or not, one  *)
(* step leaves exactly the vertical line around (row, col) and a second     *)
(* step exactly the horizontal line again.                                  *)
C12_Blinker ==
    (Rows >= 5 /\ Columns >= 5) =>
        \A row \in RowIdx, col \in ColIdx :
            /\ (AfterUpdate /\ gen0 = Blinker(row, col)) => Grid = VBlinker(row, col)
            /\ (AfterUpdate /\ gen0 = VBlinker(row, col)) => Grid = Blinker(row, col)
            /\ (pc = "loop" /\ base = Blinker(row, col)) =>
                  Grid = IF ticks % 2 = 1 THEN VBlinker(row, col) ELSE base

\* two steps from the line around (0, 0), which lies across the left edge and
\* turns into a line across the upper edge
C12_Witness ==
    /\ pc = "loop"
    /\ Rows = 5
    /\ Columns = 5
    /\ ticks = 2
    /\ base = Blinker(0, 0)
    /\ base[0][Columns - 1] = 1
    /\ NextGen(base)[Rows - 1][0] = 1
    /\ Grid = base
    /\ NewGrid = base

----------------------------------------------------------------------------
(* C13: on a grid of at least 4x4 cells whose only ALIVE cells are a 2x2    *)
(* block, at any position, straddling an edge or not, one step leaves Grid  *)
(* unchanged: getNeighborCount is 3 for each cell of the block and is not 3 *)
(* for any DEAD cell.                                                       *)
C13_Block ==
    (AfterUpdate /\ Rows >= 4 /\ Columns >= 4) =>
        \A row \in RowIdx, col \in ColIdx :
            gen0 = Block(row, col) =>
                /\ Grid = gen0
                /\ \A i \in RowIdx, j \in ColIdx :
                      IF <<i, j>> \in BlockCells(row, col)
                      THEN getNeighborCount(gen0, i, j) = 3
                      ELSE getNeighborCount(gen0, i, j) # 3

\* a step of the block whose corner is the last cell of a 4x4 grid, so that it
\* lies across both edges
C13_Witness ==
    /\ AfterUpdate
    /\ Rows = 4
    /\ Columns = 4
    /\ gen0 = Block(Rows - 1, Columns - 1)
    /\ gen0[0][0] = 1
    /\ gen0[Rows - 1][Columns - 1] = 1
    /\ getNeighborCount(gen0, 0, 0) = 3
    /\ Grid = gen0

----------------------------------------------------------------------------
(* C14: SDL_AppInit returns SDL_APP_FAILURE only straight from start-up, and *)
(* then no Application has been allocated, std::srand and initGrid have not *)
(* been called, Grid and NewGrid are all-DEAD, no tick has run, nothing but *)
(* SDL_AppQuit follows, and SDL_AppQuit leaves the null appstate alone.     *)
C14_InitFailure ==
    /\ [](result = "SDL_APP_FAILURE" =>
            /\ pc \in {"quit", "done"}
            /\ appstate = "nullptr"
            /\ ~srandCalled
            /\ draws = <<>>
            /\ Grid = ZeroGrid(Rows, Columns)
            /\ NewGrid = ZeroGrid(Rows, Columns)
            /\ frame = <<>> /\ presented = <<>> /\ ~stepped
            /\ ticks = 0 /\ toggles = 0 /\ ticksAfterQuit = 0)
    /\ [][(result' = "SDL_APP_FAILURE" /\ result # "SDL_APP_FAILURE") =>
             (pc = "boot" /\ pc' = "quit")]_vars
    /\ [][result = "SDL_APP_FAILURE" =>
             (pc = "quit" /\ pc' = "done" /\ result' = result
                 /\ appstate' = "nullptr" /\ Grid' = Grid /\ NewGrid' = NewGrid)]_vars

\* SDL_AppQuit has run after a failed SDL_AppInit
C14_Witness ==
    /\ pc = "done"
    /\ result = "SDL_APP_FAILURE"
    /\ appstate = "nullptr"
    /\ ~srandCalled
    /\ Grid = ZeroGrid(Rows, Columns)

----------------------------------------------------------------------------
\* g has Rows rows of Columns cells, each of them 0 or 1
WellShaped(g) ==
    /\ DOMAIN g = RowIdx
    /\ \A i \in RowIdx : DOMAIN g[i] = ColIdx /\ \A j \in ColIdx : g[i][j] \in {0, 1}

(* C15: in every reachable state, in the middle of initGrid and updateGrid  *)
(* too, Grid and NewGrid have Rows rows of Columns cells and every cell is  *)
(* 0 or 1.                                                                  *)
C15_GridShape ==
    /\ Cardinality(RowIdx \X ColIdx) = Rows * Columns
    /\ WellShaped(Grid)
    /\ WellShaped(NewGrid)

\* a step has committed a generation with ALIVE and DEAD cells, made from a
\* seeded Grid that differs from it
C15_Witness ==
    /\ AfterUpdate
    /\ Rows * Columns = 4
    /\ gen0 # Grid
    /\ \E i \in RowIdx, j \in ColIdx : Grid[i][j] = 1
    /\ \E i \in RowIdx, j \in ColIdx : Grid[i][j] = 0
    /\ C15_GridShape

----------------------------------------------------------------------------
(* The application with SDL's event queue. The keyboard and the window     *)
(* system post events at any moment, during a tick and during initGrid too, *)
(* and the queue keeps them; the one thread that runs the callbacks hands   *)
(* them to SDL_AppEvent between two callbacks.                              *)

\* the specification with the queue uses grids of at most DriverMaxCells cells
DriverMaxCells == 2

\* the events the queue holds at most
MaxPending == 1

EventKinds == {"SDL_EVENT_QUIT", "SDLK_SPACE", "SDLK_R", "other"}

\* an event is posted while the application runs
PostEvent ==
    /\ pc \in {"initGrid", "loop", "updateGrid", "present", "return"}
    /\ Len(pending) < MaxPending
    /\ \E kind \in EventKinds : pending' = Append(pending, kind)
    /\ UNCHANGED <<Rows, Columns, Grid, NewGrid, appstate, status, runSimulation,
                   pc, caller, r, c, result, frame, neighborCount, draws, prevCell,
                   gen0, stepped, base, baseNew, ticks, presented, toggles, run0,
                   ticksAfterQuit, srandCalled>>

InitDriver == InitWith(Dims(DriverMaxCells))

NextDriver ==
    \/ PostEvent
    \/ Next

SpecDriver == InitDriver /\ [][NextDriver]_vars

----------------------------------------------------------------------------
----------------------------------------------------------------------------
(* C17: the frame a tick presents is drawn from the Grid the tick began     *)
(* with, before the tick's step: it never shows the generation that step    *)
(* commits. The first tick after a seeding presents the seeded Grid, and    *)
(* the tick that follows k steps presents the k-th generation after it.     *)
C17_RenderBeforeStep ==
    /\ (InTick /\ ~stepped) => (Grid = gen0 /\ frame = drawGrid(Grid))
    /\ pc = "return" =>
          /\ presented = drawGrid(gen0)
          /\ stepped = runSimulation
          /\ stepped => Grid = NextGen(gen0)
          /\ ticks = 0 => presented = drawGrid(base)
          /\ presented = drawGrid(IF runSimulation THEN NextGenN(base, ticks) ELSE base)

\* the second tick after a seeding has presented the generation the first
\* tick's step made, and has itself made another one
C17_Witness ==
    /\ pc = "return"
    /\ ticks = 1
    /\ stepped
    /\ gen0 # base
    /\ gen0 = NextGen(base)
    /\ Grid # gen0
    /\ presented = drawGrid(gen0)
    /\ presented # drawGrid(Grid)
    /\ presented # <<>>

----------------------------------------------------------------------------
\* the cells of g that are ALIVE
AliveCells(g) == {p \in RowIdx \X ColIdx : g[p[1]][p[2]] = 1}

\* the square of side CellSize that stands for cell p
RectOf(p) == [x |-> p[2] * CellSize, y |-> p[1] * CellSize, w |-> CellSize, h |-> CellSize]

(* C18: the rectangles drawGrid emits for the Grid a tick began with are    *)
(* one per ALIVE cell, at x = column * CellSize and y = row * CellSize with *)
(* width and height CellSize, and none for a DEAD cell; their number is the *)
(* number of ALIVE cells, and drawGrid leaves Grid as it was.               *)
C18_DrawGrid ==
    InTick =>
        /\ {frame[k] : k \in 1 .. Len(frame)} = {RectOf(p) : p \in AliveCells(gen0)}
        /\ Len(frame) = Cardinality(AliveCells(gen0))
        /\ \A p \in (RowIdx \X ColIdx) \ AliveCells(gen0) :
              \A k \in 1 .. Len(frame) : frame[k] # RectOf(p)
        /\ ~stepped => Grid = gen0

\* a 2x3 Grid with ALIVE and DEAD cells, an ALIVE one off the diagonal, drawn
C18_Witness ==
    /\ pc = "updateGrid"
    /\ r = 0
    /\ c = 0
    /\ Rows = 2
    /\ Columns = 3
    /\ Grid = gen0
    /\ Grid[1][2] = 1
    /\ Grid[0][0] = 0
    /\ Len(frame) = 3
    /\ \E k \in 1 .. Len(frame) : frame[k] = RectOf(<<1, 2>>)

----------------------------------------------------------------------------
(* C19: on a grid of one row every index getNeighborCount reads is in range *)
(* and a cell is counted once for every offset that wraps onto it. On the   *)
(* 1x1 grid the count is 8 for the ALIVE cell and 0 for the DEAD one, so a  *)
(* step leaves the grid all-DEAD; on a 1xN grid with N >= 3 the count of    *)
(* (0, j) is twice the cell itself plus three times each of its left and    *)
(* right neighbours.                                                        *)
C19_Degenerate ==
    (AfterUpdate /\ Rows = 1) =>
        /\ \A j \in ColIdx : \A i \in 1 .. 8 :
              neighborReads(0, j)[i] \in RowIdx \X ColIdx
        /\ Columns = 1 =>
              /\ getNeighborCount(gen0, 0, 0) = 8 * gen0[0][0]
              /\ Grid = ZeroGrid(Rows, Columns)
        /\ Columns >= 3 =>
              \A j \in ColIdx :
                  getNeighborCount(gen0, 0, j) =
                      2 * gen0[0][j] + 3 * gen0[0][(j - 1) % Columns]
                                     + 3 * gen0[0][(j + 1) % Columns]

\* a step of the 1x3 grid with cells 0 and 1 ALIVE: the counts are 5, 5 and 6
C19_Witness ==
    /\ AfterUpdate
    /\ Rows = 1
    /\ Columns = 3
    /\ gen0[0][0] = 1 /\ gen0[0][1] = 1 /\ gen0[0][2] = 0
    /\ neighborCount = 6
    /\ getNeighborCount(gen0, 0, 0) = 5
    /\ Grid = ZeroGrid(Rows, Columns)

----------------------------------------------------------------------------
(* The application under a fair driver. SDL's main loop hands the pending   *)
(* events to SDL_AppEvent and then calls SDL_AppIterate, again and again:   *)
(* however many events arrive, SDL_AppIterate is called again (strong       *)
(* fairness, an R event disables the call for the time initGrid runs), and  *)
(* a callback that has been entered runs to its return (weak fairness); no  *)
(* event has to arrive.                                                     *)

\* the fair specification uses grids of at most FairMaxCells cells
FairMaxCells == 3

InitFair == InitWith(Dims(FairMaxCells))

Fairness ==
    /\ SF_vars(SDL_AppIterate_Begin)
    /\ WF_vars(initGrid_Cell)
    /\ WF_vars(initGrid_Return)
    /\ WF_vars(updateGrid_Cell)
    /\ WF_vars(updateGrid_Commit)
    /\ WF_vars(SDL_AppIterate_Present)
    /\ WF_vars(SDL_AppIterate_Return)
    /\ WF_vars(SDL_AppQuit)

SpecFair == InitFair /\ [][Next]_vars /\ Fairness

----------------------------------------------------------------------------
(* C20: once the quit event has been handled the status is SDL_APP_SUCCESS  *)
(* and no event and no tick puts it back; every SDL_AppEvent call returns   *)
(* SDL_APP_CONTINUE, the one that handles quit too, so the loop goes on to  *)
(* the next SDL_AppIterate, which returns SDL_APP_SUCCESS when it completes *)
(* and ends the loop; under the fair driver this happens eventually.        *)
C20_QuitTerminal ==
    /\ [][status = "SDL_APP_SUCCESS" => status' = "SDL_APP_SUCCESS"]_vars
    /\ [][(status # "SDL_APP_SUCCESS" /\ status' = "SDL_APP_SUCCESS") =>
             (pc = "loop" /\ pc' = "loop" /\ result' = "SDL_APP_CONTINUE")]_vars
    /\ [][((pc = "loop" /\ pc' = "loop") \/ (pc = "initGrid" /\ pc' = "loop")) =>
             result' = "SDL_APP_CONTINUE"]_vars
    /\ [][(pc = "return" /\ pc' # "return" /\ status = "SDL_APP_SUCCESS") =>
             (result' = "SDL_APP_SUCCESS" /\ pc' = "quit")]_vars
    /\ [](pc \in {"quit", "done"} =>
             (result = "SDL_APP_FAILURE" \/
                 (result = "SDL_APP_SUCCESS" /\ status = "SDL_APP_SUCCESS")))
    /\ (status = "SDL_APP_SUCCESS") ~>
             (pc = "done" /\ result = "SDL_APP_SUCCESS" /\ appstate = "deleted")

\* the application has ended after a quit event handled while it was paused:
\* the last tick has drawn the Grid and not stepped it
C20_Witness ==
    /\ pc = "done"
    /\ result = "SDL_APP_SUCCESS"
    /\ status = "SDL_APP_SUCCESS"
    /\ appstate = "deleted"
    /\ ~runSimulation
    /\ Grid # ZeroGrid(Rows, Columns)
    /\ NewGrid = ZeroGrid(Rows, Columns)

====
